---- MODULE Spec2Model ----
(***************************************************************************)
(* Model of Extrator_postgres/database.py: the query orchestrator          *)
(* (executar_consultas / processa_consulta), the query runner              *)
(* (executar_consulta) and the dataset materializer (processar_dados).     *)
(*                                                                         *)
(* Strings that the code manipulates (query names, paths) are sequences of *)
(* tokens, so that str.replace and os.path.join are computed.              *)
(***************************************************************************)
EXTENDS Integers, Sequences, FiniteSets, TLC

\* ------------------------------------------------------------------ bounds
MaxConsultas == 2
MaxWorkers == 2
MaxFalhas == 5
MaxLinhas == 2

\* ------------------------------------------------------- program constants
retries == 5

Vendas == <<"V", "e", "n", "d", "a", "s">>
Compras == <<"C", "o", "m", "p", "r", "a", "s">>
VenDas == <<"V", "e", "n", " ", "d", "a", "s">>
PastaTemp == <<"tmp">>
IdEmp == "1"
NenhumaColuna == "None"
Sentinela == [pasta |-> <<>>, particoes |-> {}]

\* A query spec: the value under "name" is a str (tipo = "str") or is not
\* one (tipo = "None": consulta.get("name", "") returns None).
Lote ==
    << [tipo |-> "str", name |-> Vendas],
       [tipo |-> "str", name |-> VenDas],
       [tipo |-> "str", name |-> Compras],
       [tipo |-> "None", name |-> <<>>] >>

Janela(a, n) == [k \in 1..n |-> Lote[((a + k - 2) % Len(Lote)) + 1]]

ListasDeConsultas == {Janela(a, n) : a \in 1..Len(Lote), n \in 0..MaxConsultas}

\* The columns of a raw result in a whole run; the other column sets are
\* explored on processar_dados alone (ColunasMaterializar).
ColunasBrutas == {{"Codigo", "DataVenda", "DataEmissaoNF"}}

\* A row of a raw result is represented by the text of its business date, the
\* value cast(pl.Utf8) gives for the date column when one is recognised.
Data1 == <<"2", "0", "2", "4", "-", "0", "1", "-", "1", "5">>
Data2 == <<"2", "0", "2", "4", "-", "0", "2", "-", "0", "3">>
Data3 == <<"2", "0", "2", "3", "-", "0", "1", "-", "2", "0">>
Datas == {Data1, Data2, Data3}
LinhasBrutas == <<Data1>>
NenhumDf == [colunas |-> {}, linhas |-> <<>>]
NadaGravado == [linhas |-> <<>>, arquivos |-> <<>>]

\* Inputs of processar_dados taken alone: dataset names, column sets, tables
\* of 1..MaxLinhas rows, and the tenant id of an earlier run.
Produtos == <<"P", "r", "o", "d", "u", "t", "o", "s">>
NomesMaterializar == {Vendas, Compras, Produtos}
ColunasMaterializar ==
    {{"Codigo"}, {"Codigo", "DataVenda"}, {"Codigo", "DataEmissaoNF"},
     {"Codigo", "DataVenda", "DataEmissaoNF"}}
TabelasMaterializar ==
    UNION {[1..n -> Datas] : n \in 1..MaxLinhas}
IdEmpAnterior == "2"

\* ----------------------------------------------------------- pure helpers
RECURSIVE RemoverEspacos(_)
RemoverEspacos(s) ==
    IF s = <<>> THEN <<>>
    ELSE IF Head(s) = " " THEN RemoverEspacos(Tail(s))
    ELSE <<Head(s)>> \o RemoverEspacos(Tail(s))

Juntar(pasta, nome) == pasta \o <<"/">> \o nome

Verdadeiro_Sempre(pasta) == TRUE
Verdadeiro(pasta) == Len(pasta) > 0

ColunaData_SemNome(nome, colunas) ==
    IF "DataVenda" \in colunas THEN "DataVenda"
    ELSE IF "DataEmissaoNF" \in colunas THEN "DataEmissaoNF"
    ELSE NenhumaColuna

ColunaData(nome, colunas) ==
    IF nome = Vendas /\ "DataVenda" \in colunas THEN "DataVenda"
    ELSE IF nome = Compras /\ "DataEmissaoNF" \in colunas THEN "DataEmissaoNF"
    ELSE NenhumaColuna

Aumentar_SemIdEmpresa(colunas, coluna_data) ==
    colunas \cup {"DataHoraAtualizacao", "idEmp"}
            \cup (IF coluna_data # NenhumaColuna THEN {"Ano", "Mes"} ELSE {})

Aumentar(colunas, coluna_data) ==
    colunas \cup {"DataHoraAtualizacao", "idEmpresa", "idEmp"}
            \cup (IF coluna_data # NenhumaColuna THEN {"Ano", "Mes"} ELSE {})

PartitionCols(coluna_data) ==
    <<"idEmpresa">> \o (IF coluna_data # NenhumaColuna THEN <<"Ano", "Mes">> ELSE <<>>)

\* str.slice(offset, length) of polars, on a sequence of characters.
AnoInicio == 0
AnoTam == 4
MesInicio == 5
MesTam == 2
Min(a, b) == IF a < b THEN a ELSE b
Fatia(texto, inicio, tam) == SubSeq(texto, inicio + 1, Min(inicio + tam, Len(texto)))

\* The value of a partition column in a row of the augmented table.
ValorChave(data, coluna, idemp) ==
    IF coluna = "idEmpresa" THEN <<idemp>>
    ELSE IF coluna = "Ano" THEN Fatia(data, AnoInicio, AnoTam)
    ELSE Fatia(data, MesInicio, MesTam)

\* One hive directory name, <column>=<value>.
DirParticao(coluna, valor) == <<coluna, "=">> \o valor

\* The nested partition directory of a row: one level per partition column.
CaminhoParticao(data, pcols, idemp) ==
    [k \in 1..Len(pcols) |-> DirParticao(pcols[k], ValorChave(data, pcols[k], idemp))]

EscreverDataset_SoPrimeira(linhas, pcols, idemp) ==
    LET p == CaminhoParticao(linhas[1], pcols, idemp)
    IN [q \in {p} |-> {k \in DOMAIN linhas : CaminhoParticao(linhas[k], pcols, idemp) = q}]

\* pq.write_to_dataset: the rows are grouped by the values of the partition
\* columns and each group goes to a file under its nested directory; the
\* result maps each directory written to the indices of the rows in it.
EscreverDataset(linhas, pcols, idemp) ==
    LET caminho(k) == CaminhoParticao(linhas[k], pcols, idemp)
    IN [p \in {caminho(k) : k \in DOMAIN linhas} |->
           {k \in DOMAIN linhas : caminho(k) = p}]

\* What an earlier run can have left under <pasta_temp>/<nome>: nothing, or
\* the directories of one write of a one-row table for this tenant id or
\* another.
DiscosAnteriores(nome) ==
    {<<>>} \cup
    {[n \in {nome} |-> DOMAIN EscreverDataset(<<d>>, pcols, idemp)] :
        d \in Datas,
        pcols \in {<<"idEmpresa">>, <<"idEmpresa", "Ano", "Mes">>},
        idemp \in {IdEmp, IdEmpAnterior}}

Validar_Sempre(schema) == TRUE
Validar(schema) == "idEmpresa" \in schema

HaMaisTentativas_UmaAMenos(feitas) == feitas < retries - 1
HaMaisTentativas_SoUma(feitas) == feitas < 1
HaMaisTentativas(feitas) == feitas < retries

AposFalha_SempreRepete(tipo) == "sleeping"
AposFalha(tipo) == IF tipo = "oper" THEN "sleeping" ELSE "done"

Vazio_Nunca(linhas) == FALSE
Vazio(linhas) == linhas = 0

\* Where control goes when the fan-out raises: the except clause logs, then
\* the finally block runs.
DestinoExcecao_SemFinally == "returned"
DestinoExcecao_Propaga == "raised"
DestinoExcecao == "finally"

\* ------------------------------------------------------------------ state
VARIABLES
    paralela, workers, consultas,
    pc, conexao, proximo, coletado,
    resultados, particoes_criadas,
    tpc, historico, esperas,
    df, partition_cols, materializou, ajuste, escrita, ret,
    ajustePorNome, disco, gravacao

vars == <<paralela, workers, consultas, pc, conexao, proximo, coletado,
          resultados, particoes_criadas, tpc, historico, esperas,
          df, partition_cols, materializou, ajuste, escrita, ret,
          ajustePorNome, disco, gravacao>>

entrada == <<paralela, workers, consultas>>
principal == <<pc, conexao, proximo, coletado, resultados, particoes_criadas>>
tarefa == <<tpc, historico, esperas, df, partition_cols,
            materializou, ajuste, escrita, ret, ajustePorNome, disco, gravacao>>

Tarefas == 1..Len(consultas)

NomeConsulta(i) == RemoverEspacos(consultas[i].name)

Terminadas == {i \in Tarefas : tpc[i] \in {"done", "raised"}}
EmCurso == {i \in Tarefas : tpc[i] \in {"ready", "sleeping", "processing", "writing"}}

\* Attempts made by task i, and how many of them raised OperationalError.
Tentativas(i) == Len(historico[i])
FalhasOper(i) == Cardinality({k \in 1..Len(historico[i]) : historico[i][k] = "oper"})
Ultimo(i) == IF historico[i] = <<>> THEN "nenhum" ELSE historico[i][Len(historico[i])]

RECURSIVE TotalFalhas(_)
TotalFalhas(S) == IF S = {} THEN 0
                  ELSE LET x == CHOOSE y \in S : TRUE
                       IN FalhasOper(x) + TotalFalhas(S \ {x})

\* The session a task hands to executar_consulta.
ConexaoPersistente == "conexao_persistente"
SessaoDe(i) == ConexaoPersistente

\* os.listdir(pasta_consulta): the names of the immediate children.
Listar(d, nome) == IF nome \in DOMAIN d THEN {p[1] : p \in d[nome]} ELSE {}

\* pasta_consulta of the task's call of processar_dados.
PastaDaTarefa(i) == Juntar(PastaTemp, NomeConsulta(i))

Init ==
    /\ paralela \in BOOLEAN
    /\ workers \in (IF paralela THEN {1, MaxWorkers} ELSE {1})
    /\ consultas \in ListasDeConsultas
    /\ pc = "inicio"
    /\ conexao = "none"
    /\ proximo = 1
    /\ coletado = {}
    /\ resultados = <<>>
    /\ particoes_criadas = <<>>
    /\ tpc = [i \in Tarefas |-> "unsubmitted"]
    /\ historico = [i \in Tarefas |-> <<>>]
    /\ esperas = [i \in Tarefas |-> 0]
    /\ df = [i \in Tarefas |-> NenhumDf]
    /\ partition_cols = [i \in Tarefas |-> <<>>]
    /\ materializou = [i \in Tarefas |-> FALSE]
    /\ ajuste = [i \in Tarefas |-> "nenhum"]
    /\ escrita = [i \in Tarefas |-> "nenhuma"]
    /\ ret = [i \in Tarefas |-> Sentinela]
    /\ ajustePorNome = <<>>
    /\ disco = <<>>
    /\ gravacao = [i \in Tarefas |-> NadaGravado]

\* ------------------------------------------------------- executar_consultas
\* conectar_ao_banco: returns the session or re-raises.
Conectar ==
    /\ pc = "inicio"
    /\ \E ok \in BOOLEAN :
        IF ok
        THEN /\ conexao' = "open"
             /\ pc' = IF paralela THEN "submit" ELSE "loop"
        ELSE /\ conexao' = "none"
             /\ pc' = "raised"
    /\ UNCHANGED <<entrada, proximo, coletado, resultados, particoes_criadas, tarefa>>

\* The merge of one task's return value into the two maps.
Registrar_SoCaminho(nome, r) ==
    IF Verdadeiro(r.pasta)
    THEN /\ resultados' = [n \in DOMAIN resultados \cup {nome} |->
                              IF n = nome THEN r.pasta ELSE resultados[n]]
         /\ UNCHANGED particoes_criadas
    ELSE UNCHANGED <<resultados, particoes_criadas>>

Registrar(nome, r) ==
    IF Verdadeiro(r.pasta)
    THEN /\ resultados' = [n \in DOMAIN resultados \cup {nome} |->
                              IF n = nome THEN r.pasta ELSE resultados[n]]
         /\ particoes_criadas' = [n \in DOMAIN particoes_criadas \cup {nome} |->
                              IF n = nome THEN r.particoes ELSE particoes_criadas[n]]
    ELSE UNCHANGED <<resultados, particoes_criadas>>

\* First statements of processa_consulta, before its try block.
EntrarProcessaConsulta(i) ==
    tpc' = [tpc EXCEPT ![i] = IF consultas[i].tipo = "str" THEN "ready" ELSE "raised"]

Chamar_ForaDeOrdem(k) ==
    /\ pc = "loop"
    /\ k \in Tarefas
    /\ tpc[k] = "unsubmitted"
    /\ tpc' = [tpc EXCEPT ![k] = IF consultas[k].tipo = "str" THEN "ready" ELSE "raised"]
    /\ pc' = IF consultas[k].tipo = "str" THEN "loop" ELSE DestinoExcecao
    /\ UNCHANGED <<entrada, conexao, proximo, coletado, resultados, particoes_criadas,
                   historico, esperas, df, partition_cols,
                   materializou, ajuste, escrita, ret, ajustePorNome, disco, gravacao>>

\* Sequential mode: the loop calls processa_consulta for the next spec.
Chamar(k) ==
    /\ pc = "loop"
    /\ k = proximo
    /\ k \in Tarefas
    /\ tpc[k] = "unsubmitted"
    /\ EntrarProcessaConsulta(k)
    /\ pc' = IF consultas[k].tipo = "str" THEN "loop" ELSE DestinoExcecao
    /\ UNCHANGED <<entrada, conexao, proximo, coletado, resultados, particoes_criadas,
                   historico, esperas, df, partition_cols,
                   materializou, ajuste, escrita, ret, ajustePorNome, disco, gravacao>>

\* Sequential mode: processa_consulta returned; record and move on.
RegistrarSeq(k) ==
    /\ pc = "loop"
    /\ k = proximo
    /\ k \in Tarefas
    /\ tpc[k] = "done"
    /\ Registrar(NomeConsulta(k), ret[k])
    /\ coletado' = coletado \cup {k}
    /\ proximo' = k + 1
    /\ UNCHANGED <<entrada, pc, conexao, tarefa>>

FimLoop ==
    /\ pc = "loop"
    /\ proximo > Len(consultas)
    /\ pc' = "finally"
    /\ UNCHANGED <<entrada, conexao, proximo, coletado, resultados, particoes_criadas, tarefa>>

\* Concurrent mode: executor.submit for each spec, in list order.
Submeter(k) ==
    /\ pc = "submit"
    /\ k = proximo
    /\ k \in Tarefas
    /\ tpc' = [tpc EXCEPT ![k] = "pending"]
    /\ proximo' = k + 1
    /\ UNCHANGED <<entrada, pc, conexao, coletado, resultados, particoes_criadas,
                   historico, esperas, df, partition_cols,
                   materializou, ajuste, escrita, ret, ajustePorNome, disco, gravacao>>

FimSubmissao ==
    /\ pc = "submit"
    /\ proximo > Len(consultas)
    /\ pc' = "collect"
    /\ UNCHANGED <<entrada, conexao, proximo, coletado, resultados, particoes_criadas, tarefa>>

\* Concurrent mode: a pool thread takes the oldest pending work item.
Iniciar(i) ==
    /\ paralela
    /\ i \in Tarefas
    /\ tpc[i] = "pending"
    /\ \A j \in Tarefas : j < i => tpc[j] # "pending"
    /\ Cardinality(EmCurso) < workers
    /\ EntrarProcessaConsulta(i)
    /\ UNCHANGED <<entrada, principal, historico, esperas, df, partition_cols,
                   materializou, ajuste, escrita, ret, ajustePorNome, disco, gravacao>>

\* Concurrent mode: as_completed yields a finished future; futuro.result()
\* returns the tuple or re-raises the task's exception.
Coletar(i) ==
    /\ pc = "collect"
    /\ i \in Terminadas \ coletado
    /\ coletado' = coletado \cup {i}
    /\ IF tpc[i] = "raised"
       THEN /\ pc' = "shutdown"
            /\ UNCHANGED <<resultados, particoes_criadas>>
       ELSE /\ pc' = pc
            /\ Registrar(NomeConsulta(i), ret[i])
    /\ UNCHANGED <<entrada, conexao, proximo, tarefa>>

FimColeta_Cedo ==
    /\ pc = "collect"
    /\ coletado # {}
    /\ pc' = "finally"
    /\ UNCHANGED <<entrada, conexao, proximo, coletado, resultados, particoes_criadas, tarefa>>

FimColeta ==
    /\ pc = "collect"
    /\ coletado = Tarefas
    /\ pc' = "finally"
    /\ UNCHANGED <<entrada, conexao, proximo, coletado, resultados, particoes_criadas, tarefa>>

AguardarTarefas_SemEspera ==
    /\ pc = "shutdown"
    /\ pc' = DestinoExcecao
    /\ UNCHANGED <<entrada, conexao, proximo, coletado, resultados, particoes_criadas, tarefa>>

\* Leaving the with block on an exception: shutdown(wait=True) joins every
\* submitted task, then the except clause logs.
AguardarTarefas ==
    /\ pc = "shutdown"
    /\ Terminadas = Tarefas
    /\ pc' = DestinoExcecao
    /\ UNCHANGED <<entrada, conexao, proximo, coletado, resultados, particoes_criadas, tarefa>>

Fechar_Propaga ==
    /\ pc = "finally"
    /\ \E falha \in BOOLEAN :
        /\ conexao' = IF falha THEN "close_failed" ELSE "closed"
        /\ pc' = IF falha THEN "raised" ELSE "returned"
    /\ UNCHANGED <<entrada, proximo, coletado, resultados, particoes_criadas, tarefa>>

\* finally: fechar_conexao logs and swallows an error of close().
Fechar ==
    /\ pc = "finally"
    /\ \E falha \in BOOLEAN :
        conexao' = IF falha THEN "close_failed" ELSE "closed"
    /\ pc' = "returned"
    /\ UNCHANGED <<entrada, proximo, coletado, resultados, particoes_criadas, tarefa>>

\* -------------------------------------------------------- executar_consulta
Retornar(i, r) ==
    /\ ret' = [ret EXCEPT ![i] = r]
    /\ df' = [df EXCEPT ![i] = NenhumDf]
    /\ partition_cols' = [partition_cols EXCEPT ![i] = <<>>]

\* One iteration of the retry loop: pd.read_sql over the task's session
\* returns rows, returns no row, raises OperationalError or raises another
\* exception.
Tentativa(i) ==
    /\ i \in Tarefas
    /\ tpc[i] = "ready"
    /\ \E resultado \in {"linhas", "vazio", "oper", "erro"} :
        /\ resultado = "oper" => TotalFalhas(Tarefas) < MaxFalhas
        /\ historico' = [historico EXCEPT ![i] = Append(@, resultado)]
        /\ \E colunas \in ColunasBrutas :
            LET linhas == IF resultado = "linhas" THEN 1 ELSE 0
            IN /\ colunas \in ColunasBrutas
               /\ IF resultado \in {"oper", "erro"}
                  THEN /\ tpc' = [tpc EXCEPT ![i] = AposFalha(resultado)]
                       /\ IF AposFalha(resultado) = "done"
                          THEN Retornar(i, Sentinela)
                          ELSE UNCHANGED <<ret, df, partition_cols>>
                  ELSE IF Vazio(linhas)
                  THEN /\ tpc' = [tpc EXCEPT ![i] = "done"]
                       /\ Retornar(i, Sentinela)
                  ELSE /\ tpc' = [tpc EXCEPT ![i] = "processing"]
                       /\ df' = [df EXCEPT ![i] = [colunas |-> colunas,
                                                    linhas |-> LinhasBrutas]]
                       /\ UNCHANGED <<ret, partition_cols>>
    /\ UNCHANGED <<entrada, principal, esperas, materializou, ajuste, escrita,
                   ajustePorNome, disco, gravacao>>

\* time.sleep(5) in the OperationalError handler, then the loop test.
Acordar(i) ==
    /\ i \in Tarefas
    /\ tpc[i] = "sleeping"
    /\ esperas' = [esperas EXCEPT ![i] = @ + 1]
    /\ IF HaMaisTentativas(Tentativas(i))
       THEN /\ tpc' = [tpc EXCEPT ![i] = "ready"]
            /\ UNCHANGED <<ret, df, partition_cols>>
       ELSE /\ tpc' = [tpc EXCEPT ![i] = "done"]
            /\ Retornar(i, Sentinela)
    /\ UNCHANGED <<entrada, principal, historico, materializou, ajuste, escrita,
                   ajustePorNome, disco, gravacao>>

\* ---------------------------------------------------------- processar_dados
\* ajustar_tipos_dados(df_polars, nome): keyed by the dataset name, it keeps
\* or drops the idEmpresa column the same way for every table of that name;
\* it may also raise on a given table.
Ajustar(nome, schema, decisao) ==
    IF decisao = "remove" THEN schema \ {"idEmpresa"} ELSE schema

DecisoesDeAjuste(nome) ==
    IF nome \in DOMAIN ajustePorNome THEN {ajustePorNome[nome]} ELSE {"mantem", "remove"}

\* Up to the validation: augmentation, partition-key derivation, the type
\* adjustment and the check of the idEmpresa column.
Preparar(i) ==
    /\ i \in Tarefas
    /\ tpc[i] = "processing"
    /\ materializou' = [materializou EXCEPT ![i] = TRUE]
    /\ LET nome == NomeConsulta(i)
           coluna_data == ColunaData(nome, df[i].colunas)
           aumentado == Aumentar(df[i].colunas, coluna_data)
       IN \E levanta \in BOOLEAN, decisao \in DecisoesDeAjuste(nome) :
            IF levanta
            THEN /\ ajuste' = [ajuste EXCEPT ![i] = "erro"]
                 /\ tpc' = [tpc EXCEPT ![i] = "done"]
                 /\ Retornar(i, Sentinela)
                 /\ UNCHANGED ajustePorNome
            ELSE /\ ajuste' = [ajuste EXCEPT ![i] = decisao]
                 /\ ajustePorNome' = [n \in DOMAIN ajustePorNome \cup {nome} |->
                                         IF n = nome THEN decisao ELSE ajustePorNome[n]]
                 /\ IF ~Validar(Ajustar(nome, aumentado, decisao))
                    THEN /\ tpc' = [tpc EXCEPT ![i] = "done"]
                         /\ Retornar(i, Sentinela)
                    ELSE /\ tpc' = [tpc EXCEPT ![i] = "writing"]
                         /\ partition_cols' = [partition_cols EXCEPT ![i] =
                                                  PartitionCols(coluna_data)]
                         /\ UNCHANGED <<ret, df>>
    /\ UNCHANGED <<entrada, principal, historico, esperas, escrita, disco, gravacao>>

\* pq.write_to_dataset under <pasta_temp>/<nome>, then os.listdir of it.
Escrever(i) ==
    /\ i \in Tarefas
    /\ tpc[i] = "writing"
    /\ tpc' = [tpc EXCEPT ![i] = "done"]
    /\ LET nome == NomeConsulta(i)
           pasta_consulta == Juntar(PastaTemp, nome)
           arquivos == EscreverDataset(df[i].linhas, partition_cols[i], IdEmp)
           antes == IF nome \in DOMAIN disco THEN disco[nome] ELSE {}
           depois == [n \in DOMAIN disco \cup {nome} |->
                         IF n = nome THEN antes \cup DOMAIN arquivos ELSE disco[n]]
       IN \E ok \in BOOLEAN :
            IF ok
            THEN /\ disco' = depois
                 /\ gravacao' = [gravacao EXCEPT ![i] =
                                    [linhas |-> df[i].linhas, arquivos |-> arquivos]]
                 /\ escrita' = [escrita EXCEPT ![i] = "ok"]
                 /\ Retornar(i, [pasta |-> pasta_consulta,
                                 particoes |-> {Juntar(pasta_consulta, d) :
                                                   d \in Listar(depois, nome)}])
            ELSE /\ UNCHANGED <<disco, gravacao>>
                 /\ escrita' = [escrita EXCEPT ![i] = "falha"]
                 /\ Retornar(i, Sentinela)
    /\ UNCHANGED <<entrada, principal, historico, esperas, materializou, ajuste,
                   ajustePorNome>>

Next ==
    \/ Conectar
    \/ \E k \in 1..(MaxConsultas + 1) : Chamar(k)
    \/ \E k \in 1..(MaxConsultas + 1) : RegistrarSeq(k)
    \/ FimLoop
    \/ \E k \in 1..(MaxConsultas + 1) : Submeter(k)
    \/ FimSubmissao
    \/ \E i \in 1..(MaxConsultas + 1) : Iniciar(i)
    \/ \E i \in 1..(MaxConsultas + 1) : Coletar(i)
    \/ FimColeta
    \/ AguardarTarefas
    \/ Fechar
    \/ \E i \in 1..(MaxConsultas + 1) : Tentativa(i)
    \/ \E i \in 1..(MaxConsultas + 1) : Acordar(i)
    \/ \E i \in 1..(MaxConsultas + 1) : Preparar(i)
    \/ \E i \in 1..(MaxConsultas + 1) : Escrever(i)

Spec == Init /\ [][Next]_vars

\* ------------------------------------------------- processar_dados alone
\* A sequential run of one query whose first attempt returned a table, at
\* the call of processar_dados, over a temp directory that an earlier run
\* may have written.
InitMaterializar ==
    /\ paralela = FALSE
    /\ workers = 1
    /\ consultas \in {<<[tipo |-> "str", name |-> n]>> : n \in NomesMaterializar}
    /\ pc = "loop"
    /\ conexao = "open"
    /\ proximo = 1
    /\ coletado = {}
    /\ resultados = <<>>
    /\ particoes_criadas = <<>>
    /\ tpc = [i \in Tarefas |-> "processing"]
    /\ historico = [i \in Tarefas |-> <<"linhas">>]
    /\ esperas = [i \in Tarefas |-> 0]
    /\ df \in [Tarefas -> [colunas : ColunasMaterializar, linhas : TabelasMaterializar]]
    /\ partition_cols = [i \in Tarefas |-> <<>>]
    /\ materializou = [i \in Tarefas |-> FALSE]
    /\ ajuste = [i \in Tarefas |-> "nenhum"]
    /\ escrita = [i \in Tarefas |-> "nenhuma"]
    /\ ret = [i \in Tarefas |-> Sentinela]
    /\ ajustePorNome = <<>>
    /\ disco \in DiscosAnteriores(NomeConsulta(1))
    /\ gravacao = [i \in Tarefas |-> NadaGravado]

NextMaterializar ==
    \/ \E i \in Tarefas : Preparar(i)
    \/ \E i \in Tarefas : Escrever(i)

SpecMaterializar == InitMaterializar /\ [][NextMaterializar]_vars

\* ================================================================= claims
SoFalhasOper(i) == \A k \in 1..Len(historico[i]) : historico[i][k] = "oper"

\* C1: in concurrent mode every task runs its query on a session of its
\* own: a task that has made an attempt did not make it on the outer session
\* conexao_persistente, nor on a session another task has used.
C1_SessaoPropria ==
    paralela =>
        \A i \in Tarefas : Tentativas(i) > 0 =>
            /\ SessaoDe(i) # ConexaoPersistente
            /\ \A j \in Tarefas \ {i} : Tentativas(j) > 0 => SessaoDe(j) # SessaoDe(i)

\* C2: a runner whose every attempt raises OperationalError never makes more
\* than 5 attempts, has returned only once it has made exactly 5, and then
\* returns the sentinel without having invoked processar_dados.
C2_CincoTentativas ==
    \A i \in Tarefas :
        /\ Tentativas(i) <= retries
        /\ (SoFalhasOper(i) /\ Tentativas(i) > 0 /\ tpc[i] = "done") =>
              /\ Tentativas(i) = retries
              /\ ret[i] = Sentinela
              /\ ~materializou[i]

C2_Witness ==
    \E i \in Tarefas :
        tpc[i] = "done" /\ SoFalhasOper(i) /\ Tentativas(i) = retries /\ ret[i] = Sentinela

\* C3: once an attempt has raised a failure other than OperationalError the
\* runner has returned the sentinel: that attempt is its last one, and it is
\* followed by no backoff wait (the waits are those of the earlier
\* OperationalErrors), whatever the number of attempts already made.
C3_ErroSemRetry ==
    \A i \in Tarefas :
        (\E k \in 1..Len(historico[i]) : historico[i][k] = "erro") =>
            /\ tpc[i] = "done"
            /\ Ultimo(i) = "erro"
            /\ Tentativas(i) = FalhasOper(i) + 1
            /\ esperas[i] = FalhasOper(i)
            /\ ret[i] = Sentinela
            /\ ~materializou[i]

C3_Witness ==
    \E i \in Tarefas :
        Ultimo(i) = "erro" /\ Tentativas(i) = 3 /\ esperas[i] = 2 /\ tpc[i] = "done"

BemFormadas == \A i \in Tarefas : consultas[i].tipo = "str"

\* The query's own steps all went well: rows read, adjusted, written.
Sucesso(i) ==
    tpc[i] = "done" /\ Ultimo(i) = "linhas" /\ ajuste[i] = "mantem" /\ escrita[i] = "ok"

\* One of the query's steps failed: connectivity, query, validation,
\* adjustment or write error.
Falhou(i) ==
    /\ tpc[i] = "done"
    /\ \/ Ultimo(i) \in {"oper", "erro"}
       \/ ajuste[i] \in {"remove", "erro"}
       \/ escrita[i] = "falha"

Registrada(nome) == nome \in DOMAIN resultados /\ nome \in DOMAIN particoes_criadas
Ausente(nome) == nome \notin DOMAIN resultados /\ nome \notin DOMAIN particoes_criadas

SucessosRegistrados ==
    \A j \in Tarefas :
        Sucesso(j) => /\ Registrada(NomeConsulta(j))
                      /\ resultados[NomeConsulta(j)] = Juntar(PastaTemp, NomeConsulta(j))

C5_SessaoFechada ==
    (pc \in {"returned", "raised"} /\ conexao # "none") =>
        conexao \in {"closed", "close_failed"}

C5_Witness ==
    /\ pc = "returned"
    /\ conexao = "closed"
    /\ paralela
    /\ \E i \in Tarefas : tpc[i] = "raised"

\* C6: a query whose result set is empty has returned the sentinel without
\* processar_dados being invoked and without a write; the entry under its
\* name, if any, comes from another collected query of the same name; the run
\* does not fail and every successful query is recorded at the return.
C6_VazioSemDataset ==
    \A i \in Tarefas :
        (\E k \in 1..Len(historico[i]) : historico[i][k] = "vazio") =>
            /\ tpc[i] = "done"
            /\ Ultimo(i) = "vazio"
            /\ ~materializou[i]
            /\ escrita[i] = "nenhuma"
            /\ ret[i] = Sentinela
            /\ ~Ausente(NomeConsulta(i)) =>
                  \E j \in coletado \ {i} :
                      NomeConsulta(j) = NomeConsulta(i) /\ ret[j].pasta # <<>>
            /\ pc # "raised"
            /\ (pc = "returned" /\ BemFormadas) => SucessosRegistrados

C6_Witness ==
    /\ pc = "returned"
    /\ \E i, j \in Tarefas :
        /\ Ultimo(i) = "vazio" /\ Ausente(NomeConsulta(i))
        /\ Sucesso(j) /\ Registrada(NomeConsulta(j))

\* C7: in sequential mode at most one query is in progress, and a query has
\* been started only when every query before it in the list has returned and
\* been recorded; all of them run over conexao_persistente.
C7_UmaDeCadaVez ==
    ~paralela =>
        /\ Cardinality(EmCurso) <= 1
        /\ \A i, j \in Tarefas :
            (i < j /\ tpc[j] # "unsubmitted") => (tpc[i] = "done" /\ i \in coletado)
        /\ \A i \in Tarefas : SessaoDe(i) = ConexaoPersistente

C7_Witness ==
    /\ ~paralela
    /\ Len(consultas) >= 2
    /\ Tentativas(1) = 3 /\ esperas[1] = 2 /\ escrita[1] = "ok"
    /\ tpc[2] = "ready"

\* C8: once the outer session is established executar_consultas never raises
\* to its caller.
C8_NuncaLevanta == conexao # "none" => pc # "raised"

C8_Witness ==
    /\ pc = "returned"
    /\ \E i, j \in Tarefas : tpc[i] = "raised" /\ Falhou(j)

\* C9 as stated: an error while establishing the session, or while closing
\* it, ends executar_consultas by raising; when establishing fails no query
\* is attempted.
C9_ErrosPropagam ==
    /\ (pc # "inicio" /\ conexao = "none") =>
          (pc = "raised" /\ \A i \in Tarefas : Tentativas(i) = 0)
    /\ conexao = "close_failed" => pc = "raised"

\* C9 amended: an error while establishing the session raises to the caller
\* and no query is attempted; an error of close() is swallowed by
\* fechar_conexao and executar_consultas returns the maps.
C9_SoConectarPropaga ==
    /\ (pc # "inicio" /\ conexao = "none") =>
          (pc = "raised" /\ \A i \in Tarefas : Tentativas(i) = 0 /\ tpc[i] = "unsubmitted")
    /\ pc = "raised" => (conexao = "none" /\ resultados = <<>> /\ particoes_criadas = <<>>)
    /\ conexao = "close_failed" => pc = "returned"

C9_Witness ==
    /\ conexao = "close_failed"
    /\ pc = "returned"
    /\ \E i \in Tarefas : Sucesso(i) /\ Registrada(NomeConsulta(i))

\* C10: a query whose adjusted table lacks idEmpresa has returned the
\* sentinel without a write; nothing exists under <pasta_temp>/<its name>,
\* its name is absent from both maps, the run does not fail and every
\* successful sibling is recorded at the return.
C10_ValidacaoIsolada ==
    \A i \in Tarefas :
        ajuste[i] = "remove" =>
            /\ tpc[i] = "done"
            /\ escrita[i] = "nenhuma"
            /\ ret[i] = Sentinela
            /\ NomeConsulta(i) \notin DOMAIN disco
            /\ Ausente(NomeConsulta(i))
            /\ pc # "raised"
            /\ (pc = "returned" /\ BemFormadas) => SucessosRegistrados

C10_Witness ==
    /\ pc = "returned"
    /\ \E i, j \in Tarefas :
        /\ ajuste[i] = "remove" /\ Ausente(NomeConsulta(i))
        /\ Sucesso(j) /\ Registrada(NomeConsulta(j))

NomesDistintos ==
    \A i, j \in Tarefas : i # j => NomeConsulta(i) # NomeConsulta(j)

\* The Run Result that the per-query outcomes determine: one entry per
\* successful query, its dataset path and the partitions of its tenant id.
ResultadosEsperados ==
    [n \in {NomeConsulta(i) : i \in {t \in Tarefas : Sucesso(t)}} |-> Juntar(PastaTemp, n)]

ParticoesEsperadas ==
    [n \in {NomeConsulta(i) : i \in {t \in Tarefas : Sucesso(t)}} |->
        {Juntar(Juntar(PastaTemp, n), DirParticao("idEmpresa", <<IdEmp>>))}]

\* C11: for well-formed specs the two maps at the return are the ones the
\* per-query outcomes determine, in concurrent mode for every completion
\* order and interleaving and equally in sequential mode; with distinct names
\* a query that raised OperationalError on all 5 attempts is absent and a
\* successful one is present.
C11_ResultadoDeterminado ==
    (pc = "returned" /\ BemFormadas) =>
        /\ resultados = ResultadosEsperados
        /\ particoes_criadas = ParticoesEsperadas
        /\ NomesDistintos =>
              \A i \in Tarefas :
                  /\ (SoFalhasOper(i) /\ Tentativas(i) = retries) => Ausente(NomeConsulta(i))
                  /\ Sucesso(i) => Registrada(NomeConsulta(i))

C11_Witness ==
    /\ pc = "returned"
    /\ paralela
    /\ workers = MaxWorkers
    /\ Len(consultas) >= 2
    /\ NomesDistintos
    /\ \E i, j \in Tarefas :
        /\ i < j
        /\ SoFalhasOper(i) /\ Tentativas(i) = retries /\ Ausente(NomeConsulta(i))
        /\ Sucesso(j) /\ Registrada(NomeConsulta(j))

\* C14: a runner that has returned after n attempts has made exactly n-1
\* backoff waits: every wait is followed by a further attempt and there is
\* no wait after the last attempt.
C14_EsperasEntreTentativas ==
    \A i \in Tarefas :
        (tpc[i] = "done" /\ Tentativas(i) >= 1) => esperas[i] = Tentativas(i) - 1

\* C15: a runner whose first k attempts (1 <= k <= 4) raised OperationalError
\* goes on to attempt k+1; when that attempt returns rows processar_dados is
\* invoked, once (no attempt follows one that returned rows), and the value
\* returned is what the materializer produces for a first-attempt success.
C15_SucessoAposFalhas ==
    \A i \in Tarefas :
        /\ (SoFalhasOper(i) /\ Tentativas(i) \in 1..(retries - 1)) =>
              tpc[i] \in {"sleeping", "ready"}
        /\ \A k \in 1..(Len(historico[i]) - 1) : historico[i][k] # "linhas"
        /\ (tpc[i] = "done" /\ Ultimo(i) = "linhas" /\ FalhasOper(i) \in 1..(retries - 1)) =>
              /\ materializou[i]
              /\ ret[i] = IF Sucesso(i)
                          THEN [pasta |-> PastaDaTarefa(i),
                                particoes |-> {Juntar(PastaDaTarefa(i), DirParticao("idEmpresa", <<IdEmp>>))}]
                          ELSE Sentinela

C15_Witness ==
    \E i \in Tarefas :
        /\ tpc[i] = "done" /\ FalhasOper(i) = retries - 1 /\ Ultimo(i) = "linhas"
        /\ Sucesso(i) /\ ret[i].pasta = PastaDaTarefa(i)

\* C16: a write has begun only after the adjustment was called and the
\* idEmpresa check passed; an adjustment that drops idEmpresa makes the check
\* fail although the augmentation had injected the column (the adjustment
\* acts on the augmented table) and then no write occurs; an adjustment that
\* keeps the table passes the check because the augmentation came first.
C16_OrdemDosPassos ==
    \A i \in Tarefas :
        /\ (tpc[i] = "writing" \/ escrita[i] # "nenhuma") =>
              (materializou[i] /\ ajuste[i] = "mantem")
        /\ ajuste[i] = "remove" => (tpc[i] = "done" /\ escrita[i] = "nenhuma")
        /\ ajuste[i] = "mantem" =>
              (tpc[i] = "writing" \/ (tpc[i] = "done" /\ escrita[i] # "nenhuma"))
        /\ tpc[i] = "writing" => partition_cols[i][1] = "idEmpresa"

C16_Witness ==
    \E i, j \in Tarefas :
        /\ ajuste[i] = "remove" /\ tpc[i] = "done" /\ escrita[i] = "nenhuma"
        /\ ajuste[j] = "mantem" /\ escrita[j] = "ok"

\* C17: in concurrent mode, for every list of query specs, no two tasks are
\* ever writing into the same dataset directory.
C17_DiretoriosDisjuntos ==
    paralela =>
        \A i, j \in Tarefas :
            (i # j /\ tpc[i] = "writing" /\ tpc[j] = "writing") =>
                PastaDaTarefa(i) # PastaDaTarefa(j)

\* C19: the two maps always have the same keys, every recorded path is
\* non-empty, a name is a key only if a collected query of that name returned
\* a non-empty path, and a key is never removed.
C19_Invariante ==
    /\ DOMAIN resultados = DOMAIN particoes_criadas
    /\ \A n \in DOMAIN resultados :
        /\ resultados[n] # <<>>
        /\ \E i \in coletado : NomeConsulta(i) = n /\ ret[i].pasta # <<>>

C20_SemUsoAposFechar ==
    conexao \in {"closed", "close_failed"} =>
        \A i \in Tarefas : tpc[i] \in {"unsubmitted", "done", "raised"}

C20_Witness ==
    /\ conexao = "closed"
    /\ paralela
    /\ \E i, j \in Tarefas :
        /\ tpc[i] = "raised" /\ i \in coletado
        /\ tpc[j] = "done" /\ j \notin coletado /\ Tentativas(j) = 2

\* C12: after a successful materialization every row of the raw result is in
\* exactly one partition directory of the write, the one named by the row's
\* own idEmpresa value and, when a date column was recognised, by the year
\* and month in its date; the rows over all partitions are the raw result's
\* rows, none lost and none twice.
C12_CadaLinhaNumaParticao ==
    \A i \in Tarefas :
        escrita[i] = "ok" =>
            LET g == gravacao[i]
            IN /\ Len(g.linhas) >= 1
               /\ \A k \in DOMAIN g.linhas :
                    /\ Cardinality({p \in DOMAIN g.arquivos : k \in g.arquivos[p]}) = 1
                    /\ \A p \in DOMAIN g.arquivos :
                          k \in g.arquivos[p] =>
                             /\ Len(p) \in {1, 3}
                             /\ p[1] = <<"idEmpresa", "=", IdEmp>>
                             /\ Len(p) = 3 =>
                                  /\ p[2] = <<"Ano", "=">> \o SubSeq(g.linhas[k], 1, 4)
                                  /\ p[3] = <<"Mes", "=">> \o SubSeq(g.linhas[k], 6, 7)
               /\ \A p, q \in DOMAIN g.arquivos :
                    /\ Len(p) = Len(q)
                    /\ p # q => g.arquivos[p] \cap g.arquivos[q] = {}
               /\ UNION {g.arquivos[p] : p \in DOMAIN g.arquivos} = DOMAIN g.linhas
               /\ NomeConsulta(i) \in DOMAIN disco
               /\ DOMAIN g.arquivos \subseteq disco[NomeConsulta(i)]

C12_Witness ==
    \E i \in Tarefas :
        /\ escrita[i] = "ok"
        /\ Len(gravacao[i].linhas) = MaxLinhas
        /\ Cardinality(DOMAIN gravacao[i].arquivos) = MaxLinhas
        /\ \E p \in DOMAIN gravacao[i].arquivos : Len(p) = 3

\* C13: the partition columns handed to the writer are idEmpresa, Ano, Mes
\* exactly when the name is Vendas and the raw result has DataVenda, or the
\* name is Compras and it has DataEmissaoNF; otherwise idEmpresa alone; and
\* idEmpresa is always first.
C13_ChavesDeParticao ==
    \A i \in Tarefas :
        tpc[i] = "writing" =>
            /\ partition_cols[i] =
                  IF \/ (NomeConsulta(i) = Vendas /\ "DataVenda" \in df[i].colunas)
                     \/ (NomeConsulta(i) = Compras /\ "DataEmissaoNF" \in df[i].colunas)
                  THEN <<"idEmpresa", "Ano", "Mes">>
                  ELSE <<"idEmpresa">>
            /\ partition_cols[i][1] = "idEmpresa"

C13_Witness ==
    \E i \in Tarefas :
        /\ tpc[i] = "writing"
        /\ NomeConsulta(i) = Compras
        /\ df[i].colunas = {"Codigo", "DataVenda"}
        /\ partition_cols[i] = <<"idEmpresa">>

\* C18: the partition set returned for a dataset is exactly the set of the
\* tenant-level directories that this run's write created, also when the
\* dataset directory already held content from an earlier run.
C18_SoParticoesDestaEscrita ==
    \A i \in Tarefas :
        escrita[i] = "ok" =>
            ret[i].particoes =
                {Juntar(PastaDaTarefa(i), p[1]) : p \in DOMAIN gravacao[i].arquivos}

====
